---- MODULE Spec2Model ----
(***************************************************************************)
(* Model of bodywork.logs.bodywork_log_factory: the resolution of the      *)
(* "bodywork" logger's threshold from the explicit argument, the project   *)
(* config file, the environment variable and the default, and the          *)
(* attachment of the RichHandler.                                          *)
(*                                                                         *)
(* Spec     : calls made one after the other (each call is one step).      *)
(* SpecConc : calls made by NumThreads threads, a thread switch being      *)
(*            possible between the statements of the function.             *)
(***************************************************************************)
EXTENDS Integers, Sequences, FiniteSets, TLC

\* ---- bounds ----
MaxCalls == 3
MaxRootHandlers == 1
NumThreads == 2

Threads == 1 .. NumThreads

\* ---- values ----
None == "<None>"

LevelNames == {"DEBUG", "INFO", "WARNING", "ERROR", "CRITICAL"}

\* names that are not keys of log_level_mapping ("WARN" is a level name of
\* the logging library but not a key of the mapping)
OtherNames == {"debug", "WARN", "TRACE"}

\* logs.py 66-72
log_level_mapping ==
    ("DEBUG" :> 10) @@ ("INFO" :> 20) @@ ("WARNING" :> 30) @@
    ("ERROR" :> 40) @@ ("CRITICAL" :> 50)

\* the table Logger.setLevel uses when it is given a string (logs.py 79)
nameToLevel ==
    ("CRITICAL" :> 50) @@ ("FATAL" :> 50) @@ ("ERROR" :> 40) @@
    ("WARN" :> 30) @@ ("WARNING" :> 30) @@ ("INFO" :> 20) @@
    ("DEBUG" :> 10) @@ ("NOTSET" :> 0)

DEFAULT_LOG_LEVEL == "INFO"

BodyworkConfigError == "<BodyworkConfigError>"

\* states of the file at config_file_path: three in which loading it signals
\* a config error, and one per severity name held by logging.log_level
ConfigFailures == {"<absent>", "<malformed>", "<no logging.log_level>"}
ConfigFiles == ConfigFailures \cup LevelNames

\* values of the log_level argument and of os.environ[DEFAULT_LOG_LEVEL_ENV_VAR]
ArgValues == {None} \cup LevelNames \cup OtherNames
EnvValues == {None} \cup LevelNames \cup OtherNames

\* the handler built at logs.py 87-94
RichHandler ==
    [show_path |-> FALSE, highlighter |-> "NullHighlighter",
     omit_repeated_times |-> FALSE, rich_tracebacks |-> TRUE]

VARIABLES
    level,         \* threshold of the "bodywork" logger (0 = NOTSET)
    handlers,      \* handlers attached to the "bodywork" logger
    rootHandlers,  \* number of handlers attached to its ancestor, the root logger
    calls,         \* calls that have ended
    returns,       \* calls that have ended by returning the logger
    result,        \* how the last call ended
    lastArg,       \* log_level argument of the last call
    lastCfg,       \* state of the config file read by the last call
    lastEnv,       \* value of the environment variable read by the last call
    pc             \* SpecConc: position of each thread in the function

vars == <<level, handlers, rootHandlers, calls, returns, result,
          lastArg, lastCfg, lastEnv, pc>>

Ok(v) == [ok |-> TRUE, value |-> v, error |-> ""]
Raise(e) == [ok |-> FALSE, value |-> 0, error |-> e]

\* BodyworkConfig(config_file_path).logging.log_level
BodyworkConfig(file) ==
    IF file \in ConfigFailures THEN BodyworkConfigError ELSE file

\* Logger.setLevel given a string
checkLevel(name) ==
    IF name \in DOMAIN nameToLevel THEN Ok(nameToLevel[name]) ELSE Raise("ValueError")

\* ---- mutants of Resolve ----
ResolveConfigFirst(log_level, file, env) ==
    LET c == BodyworkConfig(file) IN
    IF c # BodyworkConfigError THEN checkLevel(c)
    ELSE IF log_level # None THEN
        IF log_level \in DOMAIN log_level_mapping
        THEN Ok(log_level_mapping[log_level]) ELSE Raise("KeyError")
    ELSE IF env # None /\ env \in DOMAIN log_level_mapping
        THEN Ok(log_level_mapping[env])
    ELSE Ok(log_level_mapping[DEFAULT_LOG_LEVEL])

ResolveExplicitFallback(log_level, file, env) ==
    IF log_level # None /\ log_level \in DOMAIN log_level_mapping
    THEN Ok(log_level_mapping[log_level])
    ELSE LET c == BodyworkConfig(file) IN
         IF c # BodyworkConfigError THEN checkLevel(c)
         ELSE IF env # None /\ env \in DOMAIN log_level_mapping
              THEN Ok(log_level_mapping[env])
         ELSE Ok(log_level_mapping[DEFAULT_LOG_LEVEL])

ResolveEnvFirst(log_level, file, env) ==
    IF log_level # None THEN
        IF log_level \in DOMAIN log_level_mapping
        THEN Ok(log_level_mapping[log_level]) ELSE Raise("KeyError")
    ELSE IF env # None /\ env \in DOMAIN log_level_mapping
        THEN Ok(log_level_mapping[env])
    ELSE LET c == BodyworkConfig(file) IN
         IF c # BodyworkConfigError THEN checkLevel(c)
         ELSE Ok(log_level_mapping[DEFAULT_LOG_LEVEL])

ResolveEnvIgnored(log_level, file, env) ==
    IF log_level # None THEN
        IF log_level \in DOMAIN log_level_mapping
        THEN Ok(log_level_mapping[log_level]) ELSE Raise("KeyError")
    ELSE LET c == BodyworkConfig(file) IN
         IF c # BodyworkConfigError THEN checkLevel(c)
         ELSE Ok(log_level_mapping[DEFAULT_LOG_LEVEL])

ResolveEnvUncaught(log_level, file, env) ==
    IF log_level # None THEN
        IF log_level \in DOMAIN log_level_mapping
        THEN Ok(log_level_mapping[log_level]) ELSE Raise("KeyError")
    ELSE LET c == BodyworkConfig(file) IN
         IF c # BodyworkConfigError THEN checkLevel(c)
         ELSE IF env = None THEN Ok(log_level_mapping[DEFAULT_LOG_LEVEL])
         ELSE IF env \in DOMAIN log_level_mapping THEN Ok(log_level_mapping[env])
         ELSE Raise("KeyError")

\* logs.py 74-85: the value given to log.setLevel, or the exception that
\* leaves the function
Resolve(log_level, file, env) ==
    IF log_level # None THEN
        IF log_level \in DOMAIN log_level_mapping
        THEN Ok(log_level_mapping[log_level])
        ELSE Raise("KeyError")
    ELSE LET c == BodyworkConfig(file) IN
         IF c # BodyworkConfigError THEN checkLevel(c)
         ELSE IF env # None /\ env \in DOMAIN log_level_mapping
              THEN Ok(log_level_mapping[env])
         ELSE Ok(log_level_mapping[DEFAULT_LOG_LEVEL])

\* Logger.hasHandlers(): the logger's own handlers, then its ancestors'
\* (the "bodywork" logger propagates to the root logger)
hasHandlers(own, root) == Len(own) > 0 \/ root > 0

Init ==
    /\ level = 0
    /\ handlers = <<>>
    /\ rootHandlers \in 0 .. MaxRootHandlers
    /\ calls = 0
    /\ returns = 0
    /\ result = "none"
    /\ lastArg = None
    /\ lastCfg = "<absent>"
    /\ lastEnv = None
    /\ pc = [t \in Threads |-> "idle"]

\* ---- mutants of bodywork_log_factory ----
FactoryAttachBeforeResolve(log_level, file, env) ==
    LET r == Resolve(log_level, file, env) IN
    /\ calls < MaxCalls
    /\ calls' = calls + 1
    /\ lastArg' = log_level /\ lastCfg' = file /\ lastEnv' = env
    /\ handlers' = IF hasHandlers(handlers, rootHandlers) THEN handlers
                   ELSE Append(handlers, RichHandler)
    /\ IF r.ok
       THEN /\ level' = r.value
            /\ result' = "returned"
            /\ returns' = returns + 1
       ELSE /\ result' = r.error
            /\ UNCHANGED <<level, returns>>
    /\ UNCHANGED <<rootHandlers, pc>>

FactoryLevelOnlyWithHandler(log_level, file, env) ==
    LET r == Resolve(log_level, file, env) IN
    /\ calls < MaxCalls
    /\ calls' = calls + 1
    /\ lastArg' = log_level /\ lastCfg' = file /\ lastEnv' = env
    /\ IF r.ok
       THEN /\ level' = IF hasHandlers(handlers, rootHandlers) THEN level ELSE r.value
            /\ handlers' = IF hasHandlers(handlers, rootHandlers) THEN handlers
                           ELSE Append(handlers, RichHandler)
            /\ result' = "returned"
            /\ returns' = returns + 1
       ELSE /\ result' = r.error
            /\ UNCHANGED <<level, handlers, returns>>
    /\ UNCHANGED <<rootHandlers, pc>>

\* logs.py 48-96: one whole call
bodywork_log_factory(log_level, file, env) ==
    LET r == Resolve(log_level, file, env) IN
    /\ calls < MaxCalls
    /\ calls' = calls + 1
    /\ lastArg' = log_level /\ lastCfg' = file /\ lastEnv' = env
    /\ IF r.ok
       THEN /\ level' = r.value
            /\ handlers' = IF hasHandlers(handlers, rootHandlers) THEN handlers
                           ELSE Append(handlers, RichHandler)
            /\ result' = "returned"
            /\ returns' = returns + 1
       ELSE /\ result' = r.error
            /\ UNCHANGED <<level, handlers, returns>>
    /\ UNCHANGED <<rootHandlers, pc>>

Call ==
    \E a \in ArgValues, f \in ConfigFiles, e \in EnvValues :
        bodywork_log_factory(a, f, e)

Next == Call

Spec == Init /\ [][Next]_vars

\* ---- the same function, statement by statement, in several threads ----

\* logs.py 73-85
SetLevel(t, log_level, file, env) ==
    LET r == Resolve(log_level, file, env) IN
    /\ pc[t] = "idle"
    /\ lastArg' = log_level /\ lastCfg' = file /\ lastEnv' = env
    /\ IF r.ok
       THEN /\ level' = r.value
            /\ pc' = [pc EXCEPT ![t] = "line86"]
            /\ UNCHANGED <<result, calls>>
       ELSE /\ pc' = [pc EXCEPT ![t] = "raised"]
            /\ result' = r.error
            /\ calls' = calls + 1
            /\ UNCHANGED level
    /\ UNCHANGED <<handlers, rootHandlers, returns>>

\* logs.py 86
CheckHandlers(t) ==
    /\ pc[t] = "line86"
    /\ pc' = [pc EXCEPT ![t] =
                IF hasHandlers(handlers, rootHandlers) THEN "line96" ELSE "line87"]
    /\ UNCHANGED <<level, handlers, rootHandlers, calls, returns, result,
                   lastArg, lastCfg, lastEnv>>

\* logs.py 87-95
AddHandler(t) ==
    /\ pc[t] = "line87"
    /\ handlers' = Append(handlers, RichHandler)
    /\ pc' = [pc EXCEPT ![t] = "line96"]
    /\ UNCHANGED <<level, rootHandlers, calls, returns, result,
                   lastArg, lastCfg, lastEnv>>

\* logs.py 96
Return(t) ==
    /\ pc[t] = "line96"
    /\ pc' = [pc EXCEPT ![t] = "returned"]
    /\ result' = "returned"
    /\ calls' = calls + 1
    /\ returns' = returns + 1
    /\ UNCHANGED <<level, handlers, rootHandlers, lastArg, lastCfg, lastEnv>>

ThreadSetLevel ==
    \E t \in Threads, a \in ArgValues, f \in ConfigFiles, e \in EnvValues :
        SetLevel(t, a, f, e)
ThreadCheckHandlers == \E t \in Threads : CheckHandlers(t)
ThreadAddHandler == \E t \in Threads : AddHandler(t)
ThreadReturn == \E t \in Threads : Return(t)

NextConc ==
    \/ ThreadSetLevel
    \/ ThreadCheckHandlers
    \/ ThreadAddHandler
    \/ ThreadReturn

SpecConc == Init /\ [][NextConc]_vars

TypeOK ==
    /\ level \in {0, 10, 20, 30, 40, 50}
    /\ Len(handlers) <= NumThreads
    /\ rootHandlers \in 0 .. MaxRootHandlers
    /\ calls \in 0 .. (MaxCalls + NumThreads)
    /\ returns \in 0 .. calls
    /\ result \in {"none", "returned", "KeyError", "ValueError"}
    /\ lastArg \in ArgValues /\ lastCfg \in ConfigFiles /\ lastEnv \in EnvValues
    /\ pc \in [Threads -> {"idle", "line86", "line87", "line96", "returned", "raised"}]

\* ---- properties ----

\* severity value of a severity name
Severity(name) ==
    CASE name = "DEBUG" -> 10
      [] name = "INFO" -> 20
      [] name = "WARNING" -> 30
      [] name = "ERROR" -> 40
      [] name = "CRITICAL" -> 50

\* the threshold the waterfall of the docstring gives a call that has no
\* explicit argument
ExpectedLevel(log_level, file, env) ==
    IF log_level \in LevelNames THEN Severity(log_level)
    ELSE IF file \in LevelNames THEN Severity(file)
    ELSE IF env \in LevelNames THEN Severity(env)
    ELSE Severity("INFO")

\* C1: after a call whose explicit log_level is one of the five severity
\* names, the threshold is that name's severity value, whatever the config
\* file and the environment variable hold.
C1_ExplicitLevelWins ==
    (calls > 0 /\ lastArg \in LevelNames) =>
        (result = "returned" /\ level = Severity(lastArg))

C1_Witness ==
    /\ result = "returned" /\ lastArg = "ERROR" /\ lastCfg = "WARNING"
    /\ lastEnv = "DEBUG" /\ level = 40

\* C2: a call whose explicit log_level is not one of the five severity names
\* ends in an error (KeyError) and not in a return with a threshold taken
\* from the config file, the environment variable or the default.
C2_UnknownExplicitRaises ==
    (calls > 0 /\ lastArg \in OtherNames) =>
        (result = "KeyError" /\ returns < calls)

C2_Witness ==
    /\ calls > 0 /\ lastArg = "debug" /\ lastCfg = "WARNING"
    /\ lastEnv = "ERROR" /\ result = "KeyError"

\* C3: with no explicit log_level and a config file that loads with a valid
\* level, the threshold is the config file's level, whatever the environment
\* variable holds.
C3_ConfigBeforeEnv ==
    (calls > 0 /\ lastArg = None /\ lastCfg \in LevelNames) =>
        (result = "returned" /\ level = Severity(lastCfg))

C3_Witness ==
    /\ result = "returned" /\ lastArg = None /\ lastCfg = "WARNING"
    /\ lastEnv = "DEBUG" /\ level = 30

\* C4: with no explicit log_level and a config file whose loading signals a
\* config error, the threshold is the environment variable's severity value
\* when it holds one of the five names exactly, and INFO otherwise.
C4_EnvThenDefault ==
    (calls > 0 /\ lastArg = None /\ lastCfg \in ConfigFailures) =>
        /\ result = "returned"
        /\ lastEnv \in LevelNames => level = Severity(lastEnv)
        /\ lastEnv \notin LevelNames => level = Severity("INFO")

C4_Witness ==
    /\ result = "returned" /\ lastArg = None /\ lastCfg = "<malformed>"
    /\ lastEnv = "CRITICAL" /\ level = 50

\* C5 (as claimed): after two or more calls that returned, starting from a
\* logger with no handlers, the logger has exactly one attached handler.
C5_Claim_ExactlyOneHandler ==
    returns >= 2 => Len(handlers) = 1

C7_Claim_AttachesWhenOwnEmpty ==
    [][(returns' # returns /\ Len(handlers) = 0) => Len(handlers') = 1]_vars

\* C8 (as claimed): with calls running concurrently, the check of line 86
\* and the attachment of line 95 being separate steps, the logger never
\* holds more than one handler.
C8_Claim_AtMostOneHandler ==
    Len(handlers) <= 1

\* C9: a call that fails because of an unrecognized explicit log_level
\* leaves the logger's threshold and its handlers as they were.
C9_FailedCallLeavesLogger ==
    [][(calls' # calls /\ lastArg' \in OtherNames) =>
            (level' = level /\ handlers' = handlers)]_vars

C9_Witness ==
    /\ result = "KeyError" /\ lastArg = "TRACE" /\ calls >= 2
    /\ level = 40 /\ Len(handlers) = 1

\* C10: every call that returns sets the threshold to the value that call
\* resolved, whatever the threshold was, and every returning call after the
\* first returning call leaves the handlers as they were.
C10_LastCallSetsLevel ==
    [][returns' # returns =>
            /\ level' = ExpectedLevel(lastArg', lastCfg', lastEnv')
            /\ returns >= 1 => handlers' = handlers]_vars

C10_Witness ==
    /\ returns >= 2 /\ result = "returned" /\ lastArg = "DEBUG"
    /\ level = 10 /\ Len(handlers) = 1

====
